---- MODULE Spec2Model ----
(***************************************************************************)
(* A model of the ShaderTeacher application: the App component's source    *)
(* text and its debounce timer (src/App.tsx), and the ShaderCanvas         *)
(* component's compile effect, program handle and frame loop               *)
(* (src/components/ShaderCanvas.tsx).                                      *)
(*                                                                         *)
(* Source texts are abstract names.  A compiler log is a sequence of       *)
(* tokens: the token "ERROR: " stands for those seven characters, every    *)
(* other token is one character.  Time is counted in milliseconds.  An     *)
(* optional value (null | v) is the sequence <<>> or <<v>>.                *)
(***************************************************************************)
EXTENDS Integers, Sequences, FiniteSets, Bags

VARIABLES
    \* App (src/App.tsx)
    code,            \* useState: the editor's text (PendingSource)
    runnableCode,    \* useState: the debounced text handed to ShaderCanvas
    error,           \* useState: ShaderError | null
    isPlaying,       \* useState: playback
    timers,          \* pending setTimeout callbacks of the debounce effect
    isAiLoading,     \* useState: the "Thinking..." flag
    promptInput,     \* useState: the text of the prompt field
    aiInFlight,      \* the AI service calls awaited by a handler (a bag)
    \* ShaderCanvas (src/components/ShaderCanvas.tsx)
    glRef,           \* TRUE when getContext('webgl') gave a context
    programRef,      \* the active WebGLProgram | null
    requestRef,      \* the id returned by the last requestAnimationFrame, 0 when unset
    rafPending,      \* the frame callbacks the browser still holds
    compilePending,  \* the compile effect is scheduled and has not run yet
    \* the graphics context
    created,         \* ids of the programs gl.createProgram returned
    deletes,         \* per program id, the number of gl.deleteProgram calls
    drawn,           \* the draw calls issued since the last recompile attempt
    \* history
    nAttempts,       \* number of recompile attempts made
    lastAttempt,     \* what the last recompile attempt did
    lastOk,          \* the program of the most recent successful attempt
    everActive,      \* ids of the programs that were installed in programRef
    sinceEdit,       \* ms since the last setCode call of an edit, -1 before any
    sinceChange,     \* ms since code last took a new value (capped)
    lastSettle,      \* the timer callback run since code last took a new value
    settles,         \* timer callbacks run since code last took a new value
    burst,           \* timers cancelled by an edit since the last timer callback (capped)
    \* the components' life, the wall clock
    mounted,         \* the component tree is mounted
    listeners,       \* the event subscriptions of the init effect
    now,             \* Date.now(), in ms since the mount
    startTimeRef,    \* useRef(Date.now()): the clock's value at the mount
    teardowns,       \* runs of the unmount cleanups (capped)
    played,          \* ms of wall time that passed while playing
    lastUTime,       \* u_time of the latest draw call since the last recompile
                     \* attempt, the time played when it was issued, the
                     \* calls of that frame, its u_mouse and the mousemove
                     \* event that was the latest then
    lastFailed,      \* the AI request whose service call failed, settled in the last step
    lastApplied,     \* the AI reply the last step wrote to the text with setCode
    \* the diagnostics extractor taken alone
    rawLog,
    extracted,
    \* the surface's geometry and the pointer
    layout,          \* window.devicePixelRatio, canvas.clientWidth, canvas.clientHeight
    canvasSize,      \* canvas.width and canvas.height as handleResize set them,
                     \* unset while no handleResize has run
    mouseRef,        \* useRef({x: 0, y: 0}): the pointer position u_mouse is given
    lastMove         \* the latest mousemove event: its offsets from the surface's
                     \* top-left corner in CSS pixels, and the layout it came in

vars == <<code, runnableCode, error, isPlaying, timers, isAiLoading,
          promptInput, aiInFlight, glRef, programRef,
          requestRef, rafPending, compilePending, created, deletes, drawn,
          nAttempts, lastAttempt, lastOk, everActive, sinceEdit, sinceChange,
          lastSettle, settles, burst, mounted, listeners, now, startTimeRef,
          teardowns, played, lastUTime, lastFailed, lastApplied, rawLog,
          extracted, layout, canvasSize, mouseRef, lastMove>>

appVars == <<code, runnableCode, error, isPlaying, timers>>
canvasVars == <<glRef, programRef, requestRef, rafPending, compilePending>>
gpuVars == <<created, deletes, drawn, lastUTime>>
attemptVars == <<nAttempts, lastAttempt, lastOk, everActive>>
debounceVars == <<sinceEdit, sinceChange, lastSettle, settles, burst>>
extractVars == <<rawLog, extracted>>
aiVars == <<isAiLoading, promptInput, aiInFlight, lastFailed, lastApplied>>
lifeVars == <<mounted, listeners, teardowns>>
clockVars == <<now, startTimeRef, played>>
viewVars == <<layout, canvasSize, mouseRef, lastMove>>

----------------------------------------------------------------------------
\* Bounds of the model.

MaxAttempts == 3
MaxLogLen == 6
MaxBurst == 2
MaxInFlight == 2
MaxTicks == 4
MaxDpr == 2
MaxSide == 2

\* Program constants.

DebounceMs == 800
QuadVertices == 6

None == <<>>
Some(x) == <<x>>

Min(a, b) == IF a < b THEN a ELSE b

\* A step that is not a step of an AI handler.
AiUntouched ==
    /\ UNCHANGED <<isAiLoading, promptInput, aiInFlight>>
    /\ lastFailed' = None
    /\ lastApplied' = None

----------------------------------------------------------------------------
\* Source texts.

INITIAL_FRAGMENT_SHADER == "initial"
LessonCodes == {"lesson"}
Sources == {INITIAL_FRAGMENT_SHADER, "lesson", "typed"}

----------------------------------------------------------------------------
\* Compiler logs and the diagnostics extractor: info.match(/ERROR: \d+:(\d+):/).

ErrTok == "ERROR: "
Digits == {"0", "7"}
LogTokens == {ErrTok, "0", "7", ":", "x"}

DigitVal(c) == IF c = "7" THEN 7 ELSE 0

\* A variant of ParseInt: the pattern captures (\d) and not (\d+).
ParseInt_FirstDigit(ds) == IF ds = <<>> THEN 0 ELSE DigitVal(ds[1])

\* parseInt of a string of decimal digits
RECURSIVE ParseInt(_)
ParseInt(ds) ==
    IF ds = <<>> THEN 0
    ELSE 10 * ParseInt(SubSeq(ds, 1, Len(ds) - 1)) + DigitVal(ds[Len(ds)])

\* \d+ is greedy: the index after the longest run of digits starting at i
RECURSIVE DigitRunEnd(_, _)
DigitRunEnd(s, i) ==
    IF i <= Len(s) /\ s[i] \in Digits THEN DigitRunEnd(s, i + 1) ELSE i

\* The captured group of a match starting at i, or None.
MatchAt(s, i) ==
    IF i > Len(s) \/ s[i] # ErrTok THEN None
    ELSE LET j == DigitRunEnd(s, i + 1) IN
         IF j = i + 1 \/ j > Len(s) \/ s[j] # ":" THEN None
         ELSE LET k == DigitRunEnd(s, j + 1) IN
              IF k = j + 1 \/ k > Len(s) \/ s[k] # ":" THEN None
              ELSE Some(SubSeq(s, j + 1, k - 1))

\* String.prototype.match without the g flag: the leftmost match.
RECURSIVE FirstMatch(_, _)
FirstMatch(s, i) ==
    IF i > Len(s) THEN None
    ELSE IF MatchAt(s, i) # None THEN MatchAt(s, i)
    ELSE FirstMatch(s, i + 1)

Extract(info) ==
    LET match == FirstMatch(info, 1) IN
    IF match # None
    THEN [line |-> ParseInt(match[1]), message |-> info]
    ELSE [line |-> 0, message |-> info]

AllLogs == UNION {[1..n -> LogTokens] : n \in 0..MaxLogLen}

\* The logs the compile effect is run with.
LogEmpty == <<>>
LogLine7 == <<ErrTok, "0", ":", "7", ":">>
LogNoPattern == <<"x">>
FailLogs == {LogEmpty, LogLine7, LogNoPattern}

----------------------------------------------------------------------------
\* ShaderCanvas: the compile effect (ShaderCanvas.tsx lines 62-126).

\* The onCompileError calls one compileShader(source, type) makes: a stage
\* that compiled makes none; a stage that failed reports only when it is the
\* fragment stage and getShaderInfoLog returned a non-empty string.
CompileShaderReports(type, ok, info) ==
    IF ~ok /\ type = "FRAGMENT_SHADER" /\ info # <<>>
    THEN <<Some(Extract(info))>>
    ELSE <<>>

\* if (!vs || !fs) return;  then createProgram, attach, link
LinkTried(vsOk, fsOk) == vsOk /\ fsOk

\* A variant of Installs: the link status is not read.
Installs_NoLinkCheck(vsOk, fsOk, linkOk) == LinkTried(vsOk, fsOk)

\* if (!gl.getProgramParameter(program, gl.LINK_STATUS)) return;
Installs(vsOk, fsOk, linkOk) == LinkTried(vsOk, fsOk) /\ linkOk

\* A variant of LinkReports: success does not call onCompileError(null).
LinkReports_Silent(vsOk, fsOk, linkOk) == <<>>

\* a failed link only logs to the console; success ends with onCompileError(null)
LinkReports(vsOk, fsOk, linkOk) ==
    IF Installs(vsOk, fsOk, linkOk) THEN <<None>> ELSE <<>>

\* A variant of DeleteOld: the old program is deleted before the link status
\* is known.
DeleteOld_Always(dels, cur, installs) ==
    IF cur # None THEN [dels EXCEPT ![cur[1].id] = @ + 1] ELSE dels

\* if (programRef.current) gl.deleteProgram(programRef.current);
DeleteOld(dels, cur, installs) ==
    IF installs /\ cur # None
    THEN [dels EXCEPT ![cur[1].id] = @ + 1]
    ELSE dels

\* A variant of NextProgramRef: the handle is assigned only while it is null.
NextProgramRef_KeepOld(cur, new, installs) ==
    IF installs /\ cur = None THEN Some(new) ELSE cur

\* A variant of NextProgramRef: a failed attempt clears the handle.
NextProgramRef_Null(cur, new, installs) ==
    IF installs THEN Some(new) ELSE None

\* programRef.current = program;
NextProgramRef(cur, new, installs) ==
    IF installs THEN Some(new) ELSE cur

\* handleError: setError(err), once per call, the last call standing
ApplyReports(err, calls) ==
    IF calls = <<>> THEN err ELSE calls[Len(calls)]

\* One run of the effect's body with a context, on the state st.  The
\* history fields are written from the driver's answers: succeeded is what
\* the attempt was, kept is the program that was active before an attempt
\* that did not succeed, hadError whether a diagnostic stood before it.
Recompile(st, src, quiet, vsOk, fsOk, fsInfo, linkOk) ==
    LET n == st.nAttempts + 1
        new == [id |-> n, src |-> src]
        calls == CompileShaderReports("VERTEX_SHADER", vsOk, LogNoPattern)
                 \o CompileShaderReports("FRAGMENT_SHADER", fsOk, fsInfo)
                 \o LinkReports(vsOk, fsOk, linkOk)
        installs == Installs(vsOk, fsOk, linkOk)
        next == NextProgramRef(st.programRef, new, installs)
        succeeded == vsOk /\ fsOk /\ linkOk
    IN  [programRef |-> next,
         error |-> ApplyReports(st.error, calls),
         created |-> IF LinkTried(vsOk, fsOk) THEN st.created \cup {n} ELSE st.created,
         deletes |-> DeleteOld(st.deletes, st.programRef, installs),
         nAttempts |-> n,
         lastOk |-> IF succeeded THEN Some(new) ELSE st.lastOk,
         everActive |-> IF next # None THEN st.everActive \cup {next[1].id}
                        ELSE st.everActive,
         lastAttempt |-> Some([n |-> n, src |-> src, quiet |-> quiet,
                               vsOk |-> vsOk, fsOk |-> fsOk,
                               fsInfo |-> IF fsOk THEN LogEmpty ELSE fsInfo,
                               succeeded |-> succeeded,
                               hadError |-> st.error # None,
                               calls |-> calls,
                               kept |-> IF succeeded THEN None ELSE st.programRef])]

\* The text a timer callback settled had been the editor's text for the
\* whole window when the callback ran.
settledQuiet(src) ==
    /\ lastSettle # None
    /\ lastSettle[1].val = src
    /\ lastSettle[1].val = lastSettle[1].pending
    /\ lastSettle[1].sinceChange = DebounceMs

\* The inputs of one attempt: what the driver answers.
StageOutcomes == {[ok |-> TRUE, info |-> LogEmpty]}
                 \cup {[ok |-> FALSE, info |-> l] : l \in FailLogs}

CompileEffect(vsOk, fs, linkOk) ==
    /\ compilePending
    /\ compilePending' = FALSE
    /\ IF glRef /\ nAttempts < MaxAttempts
       THEN LET st == [programRef |-> programRef, error |-> error,
                       created |-> created, deletes |-> deletes,
                       nAttempts |-> nAttempts, lastOk |-> lastOk,
                       everActive |-> everActive]
                r == Recompile(st, runnableCode, settledQuiet(runnableCode),
                               vsOk, fs.ok, fs.info, linkOk)
            IN  /\ programRef' = r.programRef
                /\ error' = r.error
                /\ created' = r.created
                /\ deletes' = r.deletes
                /\ nAttempts' = r.nAttempts
                /\ lastOk' = r.lastOk
                /\ everActive' = r.everActive
                /\ lastAttempt' = r.lastAttempt
                /\ drawn' = {}
                /\ lastUTime' = None
       ELSE UNCHANGED <<programRef, error, created, deletes, nAttempts, lastOk,
                        everActive, lastAttempt, drawn, lastUTime>>
    /\ UNCHANGED <<code, runnableCode, isPlaying, timers, glRef, requestRef,
                   rafPending>>
    /\ UNCHANGED debounceVars
    /\ UNCHANGED extractVars
    /\ UNCHANGED viewVars
    /\ UNCHANGED lifeVars
    /\ UNCHANGED clockVars
    /\ AiUntouched

----------------------------------------------------------------------------
\* App: the source text and the debounce effect (App.tsx lines 26-34).

\* A variant of DebounceTimers: a pending timer is left to run and no new
\* one is set.
DebounceTimers_KeepFirst(ts, oldCode, newCode) ==
    IF newCode = oldCode \/ ts # {} THEN ts
    ELSE {[rem |-> DebounceMs, val |-> newCode]}

\* A variant of DebounceTimers: the effect returns no cleanup.
DebounceTimers_NoCleanup(ts, oldCode, newCode) ==
    IF newCode = oldCode THEN ts
    ELSE ts \cup {[rem |-> DebounceMs, val |-> newCode]}

\* A variant of DebounceTimers: the timer is set with half the delay.
DebounceTimers_HalfDelay(ts, oldCode, newCode) ==
    IF newCode = oldCode THEN ts
    ELSE {[rem |-> DebounceMs \div 2, val |-> newCode]}

\* useEffect(..., [code]): a render with a new code runs the cleanup
\* (clearTimeout) and sets a timer carrying that code; setCode with the
\* value code already has renders nothing.
DebounceTimers(ts, oldCode, newCode) ==
    IF newCode = oldCode THEN ts
    ELSE {[rem |-> DebounceMs, val |-> newCode]}

\* setCode(v): what a call does to the text, the timer and the history.
SetCode(v) ==
    /\ mounted
    /\ ~compilePending
    /\ nAttempts < MaxAttempts
    /\ code' = v
    /\ timers' = DebounceTimers(timers, code, v)
    /\ sinceEdit' = 0
    /\ sinceChange' = IF v # code THEN 0 ELSE sinceChange
    /\ settles' = IF v # code THEN 0 ELSE settles
    /\ lastSettle' = IF v # code THEN None ELSE lastSettle
    /\ burst' = IF v # code /\ timers # {} THEN Min(burst + 1, MaxBurst) ELSE burst

\* setCode(v) from an edit: the textarea, a lesson, the reset button.
Edit(v) ==
    /\ SetCode(v)
    /\ UNCHANGED <<runnableCode, error, isPlaying>>
    /\ UNCHANGED canvasVars
    /\ UNCHANGED gpuVars
    /\ UNCHANGED attemptVars
    /\ UNCHANGED extractVars
    /\ UNCHANGED viewVars
    /\ UNCHANGED lifeVars
    /\ UNCHANGED clockVars
    /\ AiUntouched

\* CodeEditor's textarea: onChange fires with a text that differs
Keystroke(v) ==
    /\ v # code
    /\ Edit(v)

\* loadLesson: setCode(lesson.code)
LoadLesson(v) == Edit(v)

\* the reset button: setCode(INITIAL_FRAGMENT_SHADER)
ResetCode == Edit(INITIAL_FRAGMENT_SHADER)

\* The timer callback: setRunnableCode(code), with the code of the render
\* that set the timer.  ShaderCanvas's compile effect is scheduled when its
\* fragmentShader prop changed.
TimerFire(t) ==
    /\ t \in timers
    /\ t.rem = 0
    /\ ~compilePending
    /\ runnableCode' = t.val
    /\ timers' = timers \ {t}
    /\ compilePending' = (t.val # runnableCode)
    /\ lastSettle' = Some([val |-> t.val, sinceEdit |-> sinceEdit,
                           sinceChange |-> sinceChange, pending |-> code,
                           burst |-> burst])
    /\ settles' = Min(settles + 1, 2)
    /\ burst' = 0
    /\ UNCHANGED <<code, error, isPlaying, sinceEdit, sinceChange>>
    /\ UNCHANGED <<glRef, programRef, requestRef, rafPending>>
    /\ UNCHANGED gpuVars
    /\ UNCHANGED attemptVars
    /\ UNCHANGED extractVars
    /\ UNCHANGED viewVars
    /\ UNCHANGED lifeVars
    /\ UNCHANGED clockVars
    /\ AiUntouched

\* d ms pass on the timers; a due timer runs before time passes further.
PassTime(d) ==
    /\ \A t \in timers : t.rem >= d
    /\ timers' = {[t EXCEPT !.rem = @ - d] : t \in timers}
    /\ sinceEdit' = IF sinceEdit = -1 THEN -1 ELSE Min(sinceEdit + d, DebounceMs)
    /\ sinceChange' = Min(sinceChange + d, DebounceMs)
    /\ UNCHANGED <<code, runnableCode, error, isPlaying, lastSettle, settles, burst>>
    /\ UNCHANGED canvasVars
    /\ UNCHANGED gpuVars
    /\ UNCHANGED attemptVars
    /\ UNCHANGED extractVars
    /\ UNCHANGED viewVars
    /\ UNCHANGED lifeVars
    /\ AiUntouched

\* Time passes, seen by the timers alone: the editing path, where no frame's
\* u_time is looked at, leaves the wall clock where it is.
Advance(d) ==
    /\ PassTime(d)
    /\ UNCHANGED clockVars

\* Time passes, seen by the timers and by Date.now().
Elapse(d) ==
    /\ now + d <= MaxTicks * (DebounceMs \div 2)
    /\ PassTime(d)
    /\ now' = now + d
    /\ played' = IF mounted /\ isPlaying THEN played + d ELSE played
    /\ UNCHANGED startTimeRef

----------------------------------------------------------------------------
\* ShaderCanvas: the frame loop (ShaderCanvas.tsx lines 128-163).

\* A variant of Cancel: the id passed is not the pending callback's.
Cancel_None(pending, id) == pending

\* cancelAnimationFrame(id)
Cancel(pending, id) == {cb \in pending : cb.id # id}

\* requestAnimationFrame returns an id no pending or remembered callback has
FreshId(pending, used) ==
    LET taken == {cb.id : cb \in pending} \cup used
    IN  CHOOSE i \in 1..(Cardinality(taken) + 1) :
            /\ i \notin taken
            /\ \A j \in 1..(i - 1) : j \in taken

\* gl.drawArrays(gl.TRIANGLES, 0, 6) with the program bound by useProgram
DrawCall(p) == [program |-> p, mode |-> "TRIANGLES", first |-> 0, count |-> QuadVertices]

\* A variant of FrameDraws: animate tests the context and not the program.
FrameDraws_NoProgramCheck(gl, program) ==
    IF gl
    THEN {DrawCall(IF program # None THEN program[1] ELSE [id |-> 0, src |-> ""])}
    ELSE {}

\* if (gl && program && canvas) { useProgram; uniforms; drawArrays }
FrameDraws(gl, program) ==
    IF gl /\ program # None THEN {DrawCall(program[1])} ELSE {}

\* The calls one run of animate makes on the context, in order.
FrameCalls(gl, program) ==
    IF FrameDraws(gl, program) = {} THEN <<>>
    ELSE <<"useProgram", "uniform2f u_resolution", "uniform1f u_time",
           "uniform2f u_mouse", "drawArrays">>

\* gl.uniform1f(uTime, (Date.now() - startTimeRef.current) / 1000), kept in ms
UTime(clock, start) == clock - start

\* A variant of Frame: animate does not schedule itself again.
Frame_NoReschedule(cb) ==
    /\ cb \in rafPending
    /\ drawn' = drawn \cup FrameDraws(glRef, programRef)
    /\ lastUTime' = IF FrameDraws(glRef, programRef) # {}
                    THEN Some([uTime |-> UTime(now, startTimeRef), played |-> played,
                               calls |-> FrameCalls(glRef, programRef),
                               uMouse |-> mouseRef, moved |-> lastMove])
                    ELSE lastUTime
    /\ rafPending' = rafPending \ {cb}
    /\ UNCHANGED requestRef
    /\ UNCHANGED <<glRef, programRef, compilePending, created, deletes>>
    /\ UNCHANGED appVars
    /\ UNCHANGED attemptVars
    /\ UNCHANGED debounceVars
    /\ UNCHANGED extractVars
    /\ UNCHANGED viewVars
    /\ UNCHANGED lifeVars
    /\ UNCHANGED clockVars
    /\ AiUntouched

\* animate: one run of a frame callback; cb.isPlaying is the isPlaying of
\* the render whose animate was scheduled.
Frame(cb) ==
    /\ cb \in rafPending
    /\ drawn' = drawn \cup FrameDraws(glRef, programRef)
    /\ lastUTime' = IF FrameDraws(glRef, programRef) # {}
                    THEN Some([uTime |-> UTime(now, startTimeRef), played |-> played,
                               calls |-> FrameCalls(glRef, programRef),
                               uMouse |-> mouseRef, moved |-> lastMove])
                    ELSE lastUTime
    /\ IF cb.isPlaying
       THEN LET id == FreshId(rafPending, {requestRef})
            IN  /\ requestRef' = id
                /\ rafPending' = (rafPending \ {cb}) \cup {[cb EXCEPT !.id = id]}
       ELSE /\ rafPending' = rafPending \ {cb}
            /\ UNCHANGED requestRef
    /\ UNCHANGED <<glRef, programRef, compilePending, created, deletes>>
    /\ UNCHANGED appVars
    /\ UNCHANGED attemptVars
    /\ UNCHANGED debounceVars
    /\ UNCHANGED extractVars
    /\ UNCHANGED viewVars
    /\ UNCHANGED lifeVars
    /\ UNCHANGED clockVars
    /\ AiUntouched

\* A variant of TogglePlay: the playback effect has no dependency on
\* isPlaying and does not run again.
TogglePlay_NoEffect ==
    /\ mounted
    /\ ~compilePending
    /\ isPlaying' = ~isPlaying
    /\ UNCHANGED <<code, runnableCode, error, timers>>
    /\ UNCHANGED canvasVars
    /\ UNCHANGED gpuVars
    /\ UNCHANGED attemptVars
    /\ UNCHANGED debounceVars
    /\ UNCHANGED extractVars
    /\ UNCHANGED viewVars
    /\ UNCHANGED lifeVars
    /\ UNCHANGED clockVars
    /\ AiUntouched

\* The play/pause button and the playback effect: the cleanup of the previous
\* run cancels requestRef.current, then the body schedules or cancels.
TogglePlay ==
    /\ mounted
    /\ ~compilePending
    /\ isPlaying' = ~isPlaying
    /\ LET cleaned == Cancel(rafPending, requestRef)
       IN  IF ~isPlaying
           THEN LET id == FreshId(cleaned, {requestRef})
                IN  /\ requestRef' = id
                    /\ rafPending' = cleaned \cup {[id |-> id, isPlaying |-> TRUE]}
           ELSE /\ rafPending' = Cancel(cleaned, requestRef)
                /\ UNCHANGED requestRef
    /\ UNCHANGED <<code, runnableCode, error, timers>>
    /\ UNCHANGED <<glRef, programRef, compilePending>>
    /\ UNCHANGED gpuVars
    /\ UNCHANGED attemptVars
    /\ UNCHANGED debounceVars
    /\ UNCHANGED extractVars
    /\ UNCHANGED viewVars
    /\ UNCHANGED lifeVars
    /\ UNCHANGED clockVars
    /\ AiUntouched

\* handleResize: the drawing buffer takes the CSS size times the ratio, and
\* the viewport the drawing buffer's size.
HandleResize(l) ==
    [width |-> l.clientWidth * l.devicePixelRatio,
     height |-> l.clientHeight * l.devicePixelRatio]

\* handleMouseMove: ox = e.clientX - rect.left and oy = e.clientY - rect.top
\* are CSS pixels, size.height is canvas.height.
HandleMouseMove(ox, oy, size) == [x |-> ox, y |-> size.height - oy]

\* The window is resized or moved to a display of another ratio: the resize
\* listener runs handleResize.
Resize(dpr, cw, ch) ==
    /\ "resize" \in listeners
    /\ layout' = [devicePixelRatio |-> dpr, clientWidth |-> cw, clientHeight |-> ch]
    /\ layout' # layout
    /\ canvasSize' = Some(HandleResize(layout'))
    /\ UNCHANGED <<mouseRef, lastMove>>
    /\ UNCHANGED appVars
    /\ UNCHANGED canvasVars
    /\ UNCHANGED gpuVars
    /\ UNCHANGED attemptVars
    /\ UNCHANGED debounceVars
    /\ UNCHANGED extractVars
    /\ UNCHANGED lifeVars
    /\ UNCHANGED clockVars
    /\ AiUntouched

\* The pointer moves over the surface: the mousemove listener of the canvas
\* runs handleMouseMove.
MouseMove(ox, oy) ==
    /\ "mousemove" \in listeners
    /\ ox \in 0..layout.clientWidth
    /\ oy \in 0..layout.clientHeight
    /\ mouseRef' = HandleMouseMove(ox, oy, canvasSize[1])
    /\ lastMove' = Some([ox |-> ox, oy |-> oy, layout |-> layout])
    /\ UNCHANGED <<layout, canvasSize>>
    /\ UNCHANGED appVars
    /\ UNCHANGED canvasVars
    /\ UNCHANGED gpuVars
    /\ UNCHANGED attemptVars
    /\ UNCHANGED debounceVars
    /\ UNCHANGED extractVars
    /\ UNCHANGED lifeVars
    /\ UNCHANGED clockVars
    /\ AiUntouched

\* A variant of TeardownCancels: the cleanups release the subscriptions only.
TeardownCancels_ListenersOnly(pending, ref) == pending

\* The cancellations of an unmount: the init effect's cleanup, when the
\* effect got as far as returning one, and the playback effect's cleanup,
\* each if (requestRef.current) cancelAnimationFrame(requestRef.current).
TeardownCancels(pending, ref) == Cancel(Cancel(pending, ref), ref)

\* The component tree is unmounted: the cleanups of the debounce effect
\* (clearTimeout), of the init effect (removeEventListener twice, cancel) and
\* of the playback effect (cancel) run.  Running them again finds nothing
\* left to release.  No cleanup calls gl.deleteProgram.
Teardown ==
    /\ ~compilePending
    /\ mounted' = FALSE
    /\ teardowns' = Min(teardowns + 1, 2)
    /\ listeners' = {}
    /\ timers' = {}
    /\ rafPending' = TeardownCancels(rafPending, requestRef)
    /\ UNCHANGED <<code, runnableCode, error, isPlaying>>
    /\ UNCHANGED <<glRef, programRef, requestRef, compilePending>>
    /\ UNCHANGED gpuVars
    /\ UNCHANGED attemptVars
    /\ UNCHANGED debounceVars
    /\ UNCHANGED extractVars
    /\ UNCHANGED viewVars
    /\ UNCHANGED clockVars
    /\ AiUntouched

----------------------------------------------------------------------------
\* The AI handlers (App.tsx lines 51-86) and the service
\* (services/geminiService.ts).

Sentinel == "// Error generating shader. Please try again."
\* a reply wrapped in a markdown code fence (three backquotes, glsl)
Fenced == "<fence>glsl lesson <fence>"
AiTexts == {"typed", Fenced, ""}

\* text.replace(<fence>glsl, '').replace(<fence>, '').trim()
Clean(text) == IF text = Fenced THEN "lesson" ELSE text

\* A variant of GenerateResult: the catch block returns the empty text.
GenerateResult_EmptyOnError(ok, text) == IF ok THEN Clean(text) ELSE ""

\* generateShaderFromPrompt: the cleaned text, or the sentinel on an exception
GenerateResult(ok, text) == IF ok THEN Clean(text) ELSE Sentinel

\* A variant of FixResult: the catch block returns the sentinel, as
\* generateShaderFromPrompt does.
FixResult_SentinelOnError(ok, text, src) ==
    IF ok THEN Clean(IF text = "" THEN src ELSE text) ELSE Sentinel

\* fixShaderCode: response.text || code, cleaned; code on an exception
FixResult(ok, text, src) ==
    IF ok THEN Clean(IF text = "" THEN src ELSE text) ELSE src

\* newCode.startsWith('// Error')
StartsWithError(text) == text = Sentinel

AiStart(kind, src) ==
    /\ BagCardinality(aiInFlight) < MaxInFlight
    /\ isAiLoading' = TRUE
    /\ aiInFlight' = aiInFlight (+) SetToBag({[kind |-> kind, src |-> src]})
    /\ lastFailed' = None
    /\ lastApplied' = None
    /\ UNCHANGED <<code, runnableCode, error, isPlaying, timers, promptInput>>
    /\ UNCHANGED canvasVars
    /\ UNCHANGED gpuVars
    /\ UNCHANGED attemptVars
    /\ UNCHANGED debounceVars
    /\ UNCHANGED extractVars
    /\ UNCHANGED viewVars
    /\ UNCHANGED lifeVars
    /\ UNCHANGED clockVars

\* handleAiExplain up to its await
AiExplain == AiStart("explain", "")

\* handleAiGenerate up to its await
AiGenerate ==
    /\ promptInput # ""
    /\ AiStart("generate", "")

\* handleAiFix up to its await
AiFix ==
    /\ error # None
    /\ AiStart("fix", code)

\* the prompt field's onChange
TypePrompt(p) ==
    /\ promptInput' = p
    /\ lastFailed' = None
    /\ lastApplied' = None
    /\ UNCHANGED <<code, runnableCode, error, isPlaying, timers, isAiLoading, aiInFlight>>
    /\ UNCHANGED canvasVars
    /\ UNCHANGED gpuVars
    /\ UNCHANGED attemptVars
    /\ UNCHANGED debounceVars
    /\ UNCHANGED extractVars
    /\ UNCHANGED viewVars
    /\ UNCHANGED lifeVars
    /\ UNCHANGED clockVars

\* A variant of AiRespond: a fix reply is dropped when the text was edited
\* while the request was in flight.
AiRespond_DropStale(r, ok, text) ==
    /\ BagIn(r, aiInFlight)
    /\ aiInFlight' = aiInFlight (-) SetToBag({r})
    /\ isAiLoading' = FALSE
    /\ promptInput' = IF r.kind = "generate" THEN "" ELSE promptInput
    /\ LET result == IF r.kind = "generate" THEN GenerateResult(ok, text)
                     ELSE FixResult(ok, text, r.src)
           applies == ~(r.kind = "explain" \/ (r.kind = "generate" /\ StartsWithError(result)))
           reply == [kind |-> r.kind, src |-> r.src, result |-> result, before |-> code]
       IN  /\ lastFailed' = IF ok THEN None ELSE Some(reply)
           /\ lastApplied' = IF ok /\ applies THEN Some(reply) ELSE None
           /\ IF ~applies \/ (r.kind = "fix" /\ code # r.src)
              THEN /\ mounted
                   /\ ~compilePending
                   /\ UNCHANGED <<code, timers>>
                   /\ UNCHANGED debounceVars
              ELSE SetCode(result)
    /\ UNCHANGED <<runnableCode, error, isPlaying>>
    /\ UNCHANGED canvasVars
    /\ UNCHANGED gpuVars
    /\ UNCHANGED attemptVars
    /\ UNCHANGED extractVars
    /\ UNCHANGED viewVars
    /\ UNCHANGED lifeVars
    /\ UNCHANGED clockVars

\* The rest of a handler, run when the service's promise settles.
AiRespond(r, ok, text) ==
    /\ BagIn(r, aiInFlight)
    /\ aiInFlight' = aiInFlight (-) SetToBag({r})
    /\ isAiLoading' = FALSE
    /\ promptInput' = IF r.kind = "generate" THEN "" ELSE promptInput
    /\ LET result == IF r.kind = "generate" THEN GenerateResult(ok, text)
                     ELSE FixResult(ok, text, r.src)
           applies == ~(r.kind = "explain" \/ (r.kind = "generate" /\ StartsWithError(result)))
           reply == [kind |-> r.kind, src |-> r.src, result |-> result, before |-> code]
       IN  /\ lastFailed' = IF ok THEN None ELSE Some(reply)
           /\ lastApplied' = IF ok /\ applies THEN Some(reply) ELSE None
           /\ IF ~applies
              THEN /\ mounted
                   /\ ~compilePending
                   /\ UNCHANGED <<code, timers>>
                   /\ UNCHANGED debounceVars
              ELSE SetCode(result)
    /\ UNCHANGED <<runnableCode, error, isPlaying>>
    /\ UNCHANGED canvasVars
    /\ UNCHANGED gpuVars
    /\ UNCHANGED attemptVars
    /\ UNCHANGED extractVars
    /\ UNCHANGED viewVars
    /\ UNCHANGED lifeVars
    /\ UNCHANGED clockVars

----------------------------------------------------------------------------
\* The state after the components mounted: the init effect asked for a
\* context, the compile effect ran once on INITIAL_FRAGMENT_SHADER, the
\* playback effect scheduled the first frame, the debounce effect set its
\* first timer.

Pristine ==
    [programRef |-> None, error |-> None, created |-> {},
     deletes |-> [i \in 1..(MaxAttempts + 1) |-> 0], nAttempts |-> 0,
     lastOk |-> None, everActive |-> {}, lastAttempt |-> None]

\* A variant of Mounted: the compile effect does not test the context.
Mounted_NoGlCheck(gl, vsOk, fs, linkOk) ==
    Recompile(Pristine, INITIAL_FRAGMENT_SHADER, FALSE, vsOk, fs.ok, fs.info, linkOk)

Mounted(gl, vsOk, fs, linkOk) ==
    IF gl
    THEN Recompile(Pristine, INITIAL_FRAGMENT_SHADER, FALSE, vsOk, fs.ok, fs.info, linkOk)
    ELSE Pristine

InitWith(gl, vsOk, fs, linkOk, log) ==
        LET m == Mounted(gl, vsOk, fs, linkOk) IN
        /\ code = INITIAL_FRAGMENT_SHADER
        /\ runnableCode = INITIAL_FRAGMENT_SHADER
        /\ error = m.error
        /\ isPlaying = TRUE
        /\ timers = DebounceTimers({}, "", INITIAL_FRAGMENT_SHADER)
        /\ isAiLoading = FALSE
        /\ promptInput = ""
        /\ aiInFlight = EmptyBag
        /\ glRef = gl
        /\ programRef = m.programRef
        /\ requestRef = 1
        /\ rafPending = {[id |-> 1, isPlaying |-> TRUE]}
        /\ compilePending = FALSE
        /\ created = m.created
        /\ deletes = m.deletes
        /\ drawn = {}
        /\ nAttempts = m.nAttempts
        /\ lastAttempt = m.lastAttempt
        /\ lastOk = m.lastOk
        /\ everActive = m.everActive
        /\ sinceEdit = -1
        /\ sinceChange = 0
        /\ lastSettle = None
        /\ settles = 0
        /\ burst = 0
        /\ mounted = TRUE
        /\ listeners = IF gl THEN {"resize", "mousemove"} ELSE {}
        /\ now = 0
        /\ startTimeRef = 0
        /\ teardowns = 0
        /\ played = 0
        /\ lastUTime = None
        /\ lastFailed = None
        /\ lastApplied = None
        /\ rawLog = log
        /\ extracted = None

\* The geometry after the mount: the init effect runs handleResize once when
\* it got a context (line 42); the pointer has not moved.
InitView(gl, dpr, cw, ch) ==
    /\ layout = [devicePixelRatio |-> dpr, clientWidth |-> cw, clientHeight |-> ch]
    /\ canvasSize = IF gl THEN Some(HandleResize(layout)) ELSE None
    /\ mouseRef = [x |-> 0, y |-> 0]
    /\ lastMove = None

Init ==
    \E gl \in BOOLEAN, vsOk \in BOOLEAN, fs \in StageOutcomes, linkOk \in BOOLEAN :
        /\ InitWith(gl, vsOk, fs, linkOk, <<>>)
        /\ InitView(gl, 1, MaxSide, MaxSide)

\* The amounts by which time advances.
Steps == {DebounceMs \div 2, DebounceMs}

\* The rendering path: every edit of the learner, the debounce timer, the
\* compile effect under every answer of the driver, the frame loop.
Next ==
    \/ \E v \in Sources : Keystroke(v)
    \/ \E v \in LessonCodes : LoadLesson(v)
    \/ ResetCode
    \/ \E t \in timers : TimerFire(t)
    \/ \E d \in Steps : Advance(d)
    \/ \E vsOk \in BOOLEAN, fs \in StageOutcomes, linkOk \in BOOLEAN :
           CompileEffect(vsOk, fs, linkOk)
    \/ \E cb \in rafPending : Frame(cb)
    \/ TogglePlay

Spec == Init /\ [][Next]_vars

\* The editing path with the AI handlers: the frame loop left running
\* unobserved, the driver answering with success or a fragment error, the
\* learner asking the AI again once the reply came.
AiOutcomes == {[ok |-> TRUE, info |-> LogEmpty], [ok |-> FALSE, info |-> LogLine7]}

NextAi ==
    \/ \E v \in Sources : Keystroke(v)
    \/ \E v \in LessonCodes : LoadLesson(v)
    \/ ResetCode
    \/ \E t \in timers : TimerFire(t)
    \/ \E d \in Steps : Advance(d)
    \/ \E fs \in AiOutcomes : CompileEffect(TRUE, fs, TRUE)
    \/ aiInFlight = EmptyBag /\ AiExplain
    \/ aiInFlight = EmptyBag /\ AiGenerate
    \/ aiInFlight = EmptyBag /\ AiFix
    \/ \E p \in {"", "fire"} : TypePrompt(p)
    \/ \E r \in BagToSet(aiInFlight), ok \in BOOLEAN, text \in AiTexts :
           AiRespond(r, ok, text)

\* mounted with a context, the first attempt answered like the later ones
InitAi ==
    \E fs \in AiOutcomes :
        /\ InitWith(TRUE, TRUE, fs, TRUE, <<>>)
        /\ InitView(TRUE, 1, MaxSide, MaxSide)

SpecAi == InitAi /\ [][NextAi]_vars

\* The AI handlers with requests that overlap: the learner types in the
\* editor and the prompt field and asks, replies come in any order; the
\* timers do not come due meanwhile.
NextHandlers ==
    \/ \E v \in Sources : Keystroke(v)
    \/ AiExplain
    \/ AiGenerate
    \/ AiFix
    \/ \E p \in {"", "fire"} : TypePrompt(p)
    \/ \E r \in BagToSet(aiInFlight), ok \in BOOLEAN, text \in AiTexts :
           AiRespond(r, ok, text)

SpecHandlers == InitAi /\ [][NextHandlers]_vars

\* The frame loop under the wall clock, with the unmount: the driver
\* answering with success or a fragment error.
NextFrames ==
    \/ \E v \in Sources : Keystroke(v)
    \/ \E t \in timers : TimerFire(t)
    \/ \E d \in Steps : Elapse(d)
    \/ \E fs \in AiOutcomes : CompileEffect(TRUE, fs, TRUE)
    \/ \E cb \in rafPending : Frame(cb)
    \/ TogglePlay
    \/ Teardown

InitFrames ==
    \E gl \in BOOLEAN, fs \in AiOutcomes :
        /\ InitWith(gl, TRUE, fs, TRUE, <<>>)
        /\ InitView(gl, 1, MaxSide, MaxSide)

SpecFrames == InitFrames /\ [][NextFrames]_vars

\* The same with the display refresh: the browser runs a pending frame
\* callback at the next refresh.
SpecFramesFair ==
    /\ InitFrames
    /\ [][NextFrames]_vars
    /\ WF_vars(\E cb \in rafPending : Frame(cb))

\* The pointer and the surface's geometry: a surface of every size up to
\* MaxSide CSS pixels a side on a display of every ratio up to MaxDpr, the
\* pointer moving to every position of the surface, the window resized, the
\* frames drawn, the unmount.
InitPointer ==
    \E dpr \in 1..MaxDpr, cw \in 1..MaxSide, ch \in 1..MaxSide :
        /\ InitWith(TRUE, TRUE, [ok |-> TRUE, info |-> LogEmpty], TRUE, <<>>)
        /\ InitView(TRUE, dpr, cw, ch)

NextPointer ==
    \/ \E ox \in 0..MaxSide, oy \in 0..MaxSide : MouseMove(ox, oy)
    \/ \E dpr \in 1..MaxDpr, cw \in 1..MaxSide, ch \in 1..MaxSide : Resize(dpr, cw, ch)
    \/ \E cb \in rafPending : Frame(cb)
    \/ Teardown

SpecPointer == InitPointer /\ [][NextPointer]_vars

\* The diagnostics extractor taken alone, applied to every log up to
\* MaxLogLen tokens.
InitExtract ==
    \E log \in AllLogs :
        /\ InitWith(FALSE, TRUE, [ok |-> TRUE, info |-> LogEmpty], TRUE, log)
        /\ InitView(FALSE, 1, MaxSide, MaxSide)

ExtractStep ==
    /\ extracted = None
    /\ extracted' = Some(Extract(rawLog))
    /\ UNCHANGED rawLog
    /\ UNCHANGED appVars
    /\ AiUntouched
    /\ UNCHANGED canvasVars
    /\ UNCHANGED gpuVars
    /\ UNCHANGED attemptVars
    /\ UNCHANGED debounceVars
    /\ UNCHANGED lifeVars
    /\ UNCHANGED clockVars
    /\ UNCHANGED viewVars

SpecExtract == InitExtract /\ [][ExtractStep]_vars

----------------------------------------------------------------------------
\* The properties.

Attempted == lastAttempt # None
Att == lastAttempt[1]
Failed == Attempted /\ ~Att.succeeded

\* the diagnostics an attempt reported (its onCompileError calls with a
\* ShaderError)
Diagnostics(calls) == {i \in DOMAIN calls : calls[i] # None}

\* C1: the active program, if present, is the program built by the most
\* recent attempt that succeeded, from that attempt's fragment source, and
\* no program is active before an attempt succeeded; an attempt that failed
\* left the active program what it was.
C1_ActiveIsLastSuccess ==
    /\ programRef = lastOk
    /\ Failed => programRef = Att.kept

\* attempt 2 succeeded and attempt 3 failed: attempt 2's program is active
C1_Witness ==
    /\ nAttempts = 3
    /\ Failed
    /\ programRef # None
    /\ programRef[1].id = 2

\* C2: a program that was active and was replaced has been deleted exactly
\* once, and the active program has not been deleted, in every state: the
\* deletion is made in the step that replaces it and in no other.
C2_ReplacedDestroyedOnce ==
    \A id \in everActive :
        deletes[id] = IF programRef # None /\ programRef[1].id = id THEN 0 ELSE 1

\* attempts success, fail, success: 3 active, 1 deleted once
C2_Witness ==
    /\ programRef # None
    /\ programRef[1].id = 3
    /\ everActive = {1, 3}
    /\ deletes[1] = 1

\* C3: an attempt that fails changes neither the active program nor the
\* playback state nor the pending frame callback, and every frame drawn
\* after it binds the program P that was active before it and issues
\* drawArrays(TRIANGLES, 0, 6).
C3_FailureKeepsFrames ==
    /\ [](Failed /\ Att.kept # None =>
            /\ programRef = Att.kept
            /\ drawn \subseteq {DrawCall(Att.kept[1])})
    /\ [][nAttempts' # nAttempts /\ ~lastAttempt'[1].succeeded =>
            UNCHANGED <<programRef, isPlaying, rafPending, requestRef>>]_vars

\* a frame was drawn after an attempt failed while a program was active
C3_Witness ==
    /\ Failed
    /\ Att.kept # None
    /\ drawn # {}

\* C4: an attempt whose fragment stage fails reports the extractor's result
\* on the raw log, whatever the log, and leaves the active program.
C4_FragmentFailureReported ==
    Attempted /\ ~Att.fsOk =>
        /\ Att.calls = <<Some(Extract(Att.fsInfo))>>
        /\ error = Some(Extract(Att.fsInfo))
        /\ programRef = Att.kept

\* C5: an attempt reports at most one diagnostic, and after an attempt that
\* succeeded the diagnostic is none, whatever it was before.
C5_OneReportClearedOnSuccess ==
    Attempted =>
        /\ Cardinality(Diagnostics(Att.calls)) <= 1
        /\ Att.succeeded => Diagnostics(Att.calls) = {} /\ error = None

\* an attempt succeeded while a diagnostic stood
C5_Witness ==
    /\ Attempted
    /\ Att.succeeded
    /\ Att.hadError
    /\ error = None

\* C6: when both stages compile and the link fails, the attempt reports a
\* diagnostic with line 0 and leaves the active program.
C6_LinkFailureReported ==
    Attempted /\ Att.vsOk /\ Att.fsOk /\ ~Att.succeeded =>
        /\ Diagnostics(Att.calls) # {}
        /\ \A i \in Diagnostics(Att.calls) : Att.calls[i][1].line = 0
        /\ programRef = Att.kept

\* C7: when the vertex stage fails, the attempt reports a diagnostic with
\* line 0, creates and links no program, and leaves the active program.
C7_VertexFailureReported ==
    Attempted /\ ~Att.vsOk =>
        /\ Diagnostics(Att.calls) # {}
        /\ \A i \in Diagnostics(Att.calls) : Att.calls[i][1].line = 0
        /\ Att.n \notin created
        /\ programRef = Att.kept

\* What the pattern "ERROR: <id>:<n>:" asks of a log, written without the
\* scan: an occurrence starts at i, its identifier ends before the colon at
\* j, its line number before the colon at k.
AllDigits(s, a, b) == a <= b /\ \A x \in a..b : s[x] \in Digits
AnyIdentifier(s, a, b) == a <= b /\ \A x \in a..b : s[x] \notin {":", ErrTok}


RECURSIVE Pow10(_)
Pow10(n) == IF n = 0 THEN 1 ELSE 10 * Pow10(n - 1)

RECURSIVE Decimal(_, _, _)
Decimal(s, a, b) ==
    IF a > b THEN 0 ELSE DigitVal(s[a]) * Pow10(b - a) + Decimal(s, a + 1, b)

IdentifierOk(s, a, b, decimal) ==
    IF decimal THEN AllDigits(s, a, b) ELSE AnyIdentifier(s, a, b)

Occurrences(s, decimal) ==
    {o \in (1..Len(s)) \X (1..Len(s)) \X (1..Len(s)) :
        /\ s[o[1]] = ErrTok
        /\ s[o[2]] = ":"
        /\ s[o[3]] = ":"
        /\ IdentifierOk(s, o[1] + 1, o[2] - 1, decimal)
        /\ AllDigits(s, o[2] + 1, o[3] - 1)}

\* the line number of the leftmost occurrence, 0 when there is none
PatternLine(s, decimal) ==
    LET occ == Occurrences(s, decimal) IN
    IF occ = {} THEN 0
    ELSE LET o == CHOOSE o \in occ : \A q \in occ : o[1] <= q[1]
         IN  Decimal(s, o[2] + 1, o[3] - 1)

\* C8 as stated: extract returns the log as the message and, as the line,
\* the number n of "ERROR: <shaderId>:<n>:" for an arbitrary identifier, 0
\* when the log holds no such pattern.
C8_AnyIdentifier ==
    extracted # None =>
        extracted[1] = [line |-> PatternLine(rawLog, FALSE), message |-> rawLog]

\* C8, amended: extract returns the log as the message and, as the line, the
\* number n of the leftmost "ERROR: <digits>:<n>:", 0 when the log holds no
\* such pattern; the shader identifier is a decimal number.
C8_DecimalIdentifier ==
    extracted # None =>
        extracted[1] = [line |-> PatternLine(rawLog, TRUE), message |-> rawLog]

\* "ERROR: 0:7:" gave line 7
C8_Witness == extracted = Some([line |-> 7, message |-> LogLine7])

\* C9 as stated: a settle event that follows an edit comes DebounceMs after
\* the last edit, carries the text of that edit and is the only one.
C9_AfterLastEdit ==
    lastSettle # None /\ lastSettle[1].sinceEdit # -1 =>
        /\ lastSettle[1].sinceEdit = DebounceMs
        /\ lastSettle[1].val = lastSettle[1].pending
        /\ settles = 1

\* C9, amended: at most one timer is pending; while one is pending no settle
\* event has fired since the text last changed, and the timer carries the
\* current text and is due DebounceMs after that change; once none is
\* pending exactly one settle event has fired since the text last changed,
\* DebounceMs after the change, carrying the current text.
C9_AfterLastChange ==
    /\ Cardinality(timers) <= 1
    /\ \A t \in timers : t.val = code /\ t.rem = DebounceMs - sinceChange
    /\ timers # {} => settles = 0 /\ lastSettle = None
    /\ timers = {} =>
        /\ settles = 1
        /\ lastSettle # None
        /\ lastSettle[1].val = code
        /\ lastSettle[1].sinceChange = DebounceMs
        /\ runnableCode = code

\* a settle event fired after three changes of the text, two of them
\* cancelling the timer of the one before
C9_Witness ==
    /\ lastSettle # None
    /\ lastSettle[1].burst >= 2
    /\ lastSettle[1].val # INITIAL_FRAGMENT_SHADER
    /\ lastSettle[1].sinceEdit = DebounceMs
    /\ settles = 1

C11_OneScheduledLoop ==
    /\ Cardinality(rafPending) <= 1
    /\ \A cb \in rafPending : cb.id = requestRef
    /\ mounted /\ isPlaying => Cardinality(rafPending) = 1

\* playing again after a pause that lasted some time, frames drawn since the
\* second attempt
C11_Witness ==
    /\ mounted
    /\ isPlaying
    /\ played < now
    /\ nAttempts >= 2
    /\ drawn # {}
    /\ Cardinality(rafPending) = 1

\* C12: while playback is Paused no frame callback is pending, and a step
\* taken while Paused draws no frame and schedules none, a recompile that
\* succeeds included.
C12_PausedDrawsNothing ==
    /\ [](~isPlaying => rafPending = {})
    /\ [][~isPlaying /\ ~isPlaying' =>
            /\ rafPending' = {}
            /\ requestRef' = requestRef
            /\ drawn' \subseteq drawn]_vars

\* paused since the mount, and the second attempt succeeded since
C12_Witness ==
    /\ mounted
    /\ ~isPlaying
    /\ played = 0
    /\ now > 0
    /\ Attempted
    /\ Att.n >= 2
    /\ Att.succeeded
    /\ programRef # None
    /\ rafPending = {}

\* C13: the elapsed time a frame is drawn with counts the time spent
\* playing and no paused wall time: it continues from its value before the
\* pause.
C13_ElapsedExcludesPause ==
    lastUTime # None => lastUTime[1].uTime = lastUTime[1].played

\* C14: every draw call was issued with the active program bound, and that
\* program is the product of an attempt that compiled and linked, and has not
\* been deleted.
C14_DrawsWholeProgram ==
    \A d \in drawn :
        /\ programRef = Some(d.program)
        /\ lastOk = Some(d.program)
        /\ d.program.id \in created
        /\ deletes[d.program.id] = 0

\* a frame drew with the second program after it replaced the first
C14_Witness ==
    /\ drawn # {}
    /\ programRef # None
    /\ programRef[1].id = 2
    /\ deletes[1] = 1

\* C15: once the compile effect has run on the settled source, no diagnostic
\* and an active program means the program was built from that source.
C15_NoBannerMeansCurrent ==
    ~compilePending /\ error = None /\ programRef # None =>
        programRef[1].src = runnableCode

\* C16: without a context no attempt compiles or links, no program exists,
\* and no frame binds or draws.
C16_NoGpuWithoutContext ==
    ~glRef =>
        /\ nAttempts = 0
        /\ lastAttempt = None
        /\ created = {}
        /\ \A id \in DOMAIN deletes : deletes[id] = 0
        /\ programRef = None
        /\ drawn = {}
        /\ lastUTime = None

\* without a context: an edit settled and the compile effect ran on it,
\* frames ran, playback was paused
C16_Witness ==
    /\ ~glRef
    /\ runnableCode = "typed"
    /\ ~compilePending
    /\ requestRef # 1
    /\ ~isPlaying

\* C17: after the unmount cleanups ran, once or more, no frame callback and
\* no timer is pending and no subscription is held, and no later step draws
\* a frame or schedules one.
C17_TeardownLeavesNothing ==
    /\ [](~mounted => rafPending = {} /\ timers = {} /\ listeners = {})
    /\ [][~mounted =>
            UNCHANGED <<rafPending, requestRef, drawn, lastUTime, programRef,
                        listeners, timers>>]_vars

\* torn down twice while playing, after frames were drawn
C17_Witness ==
    /\ ~mounted
    /\ teardowns = 2
    /\ isPlaying
    /\ drawn # {}
    /\ rafPending = {}

\* C18: after the unmount the program that was active has been deleted, and
\* every program created has been.
C18_TeardownDestroysActive ==
    ~mounted =>
        /\ programRef # None => deletes[programRef[1].id] >= 1
        /\ \A id \in created : deletes[id] >= 1

\* C19: a fix request whose service call failed resolved to the source it
\* was asked about.
C19_FixFallsBack ==
    lastFailed # None /\ lastFailed[1].kind = "fix" =>
        lastFailed[1].result = lastFailed[1].src

\* a fix request about the typed text failed
C19_Witness ==
    /\ lastFailed # None
    /\ lastFailed[1].kind = "fix"
    /\ lastFailed[1].src = "typed"

\* C20: a generate request whose service call failed resolved to the
\* sentinel and left the source text as it was; a handler's step that
\* changes the source text never writes a text carrying the sentinel.
C20_SentinelKeepsSource ==
    /\ [](lastFailed # None /\ lastFailed[1].kind = "generate" =>
            StartsWithError(lastFailed[1].result))
    /\ [][/\ lastFailed' # None /\ lastFailed'[1].kind = "generate" => code' = code
          /\ aiInFlight' # aiInFlight /\ code' # code => ~StartsWithError(code')]_vars

\* a generate request failed after the learner had typed
C20_Witness ==
    /\ lastFailed # None
    /\ lastFailed[1].kind = "generate"
    /\ code = "typed"

\* C21: a fix or generate reply that arrived has been written to the text
\* whatever the text was by then, and, when that changed the text, the one
\* pending timer is a new one carrying the reply's text, as after any edit.
C21_ReplyWins ==
    lastApplied # None =>
        /\ code = lastApplied[1].result
        /\ lastApplied[1].result # lastApplied[1].before =>
            /\ timers = {[rem |-> DebounceMs, val |-> lastApplied[1].result]}
            /\ sinceChange = 0
            /\ lastSettle = None

\* a fix asked about the initial text was answered after the learner had
\* typed, and replaced what was typed
C21_Witness ==
    /\ lastApplied # None
    /\ lastApplied[1].kind = "fix"
    /\ lastApplied[1].src = INITIAL_FRAGMENT_SHADER
    /\ lastApplied[1].before = "typed"
    /\ lastApplied[1].result = "lesson"

\* C27: a fix request whose service call failed left the text what it was
\* when the failure was handled.
C27_FailedFixKeepsEdits ==
    lastFailed # None /\ lastFailed[1].kind = "fix" =>
        code = lastFailed[1].before

\* C28: the loading flag is set exactly while a request is in flight.
C28_LoadingWhileInFlight ==
    isAiLoading <=> aiInFlight # EmptyBag

\* C22 as stated: at most one timer is pending, and a settle event that
\* follows an edit fires no less than DebounceMs after the most recent one,
\* whatever text that edit set.
C22_AfterEveryEdit ==
    /\ Cardinality(timers) <= 1
    /\ lastSettle # None /\ lastSettle[1].sinceEdit # -1 =>
           lastSettle[1].sinceEdit >= DebounceMs

\* C22, amended: at most one timer is pending; for DebounceMs after the text
\* took a new value one is, and a settle event fires no less than DebounceMs
\* after the text last took a new value.
C22_AfterEveryChange ==
    /\ Cardinality(timers) <= 1
    /\ sinceChange < DebounceMs => Cardinality(timers) = 1
    /\ lastSettle # None => lastSettle[1].sinceChange >= DebounceMs

\* a change of the text cancelled a timer, an edit with the same text
\* followed, and the settle event fired less than DebounceMs after that edit
C22_Witness ==
    /\ lastSettle # None
    /\ lastSettle[1].burst >= 1
    /\ lastSettle[1].sinceEdit >= 0
    /\ lastSettle[1].sinceEdit < DebounceMs

\* C26: every program a recompile attempt created is the active program or
\* has been deleted, so at most one created program is left undeleted.
C26_NoProgramLeftBehind ==
    /\ \A id \in created :
           (programRef # None /\ programRef[1].id = id) \/ deletes[id] >= 1
    /\ Cardinality({id \in created : deletes[id] = 0}) <= 1

\* C23: no draw call is issued while no program is active; a frame
\* callback that runs while one is active binds it, uploads resolution,
\* elapsed time and pointer and issues one draw of the 6-vertex quad, and a
\* frame callback that runs while playing schedules the next one whether it
\* drew or not.
C23_DrawsIffProgram ==
    /\ [](programRef = None => drawn = {} /\ lastUTime = None)
    /\ [](lastUTime # None =>
            /\ lastUTime[1].calls = <<"useProgram", "uniform2f u_resolution",
                                      "uniform1f u_time", "uniform2f u_mouse",
                                      "drawArrays">>
            /\ \A d \in drawn : d.count = QuadVertices /\ d.mode = "TRIANGLES")
    /\ [][requestRef' # requestRef /\ isPlaying' = isPlaying =>
            /\ Cardinality(rafPending') = 1
            /\ Cardinality(drawn' \ drawn) <= 1
            /\ programRef # None /\ glRef =>
                   /\ DrawCall(programRef[1]) \in drawn'
                   /\ lastUTime' # None
                   /\ lastUTime'[1].uTime = now - startTimeRef]_vars

\* no attempt has succeeded, nothing was drawn, and the loop has run frames
\* for some time
C23_Witness ==
    /\ glRef
    /\ mounted
    /\ isPlaying
    /\ programRef = None
    /\ nAttempts >= 2
    /\ played > 0
    /\ requestRef = 2
    /\ drawn = {}

\* C24: from every state in which the surface is mounted, playback is
\* Playing and a program is active, a further frame callback runs and draws
\* with the program that is active by then, unless playback is paused or
\* the surface torn down first.
C24_FramesKeepComing ==
    \A i \in 1..3 :
        (mounted /\ isPlaying /\ programRef # None /\ requestRef = i)
            ~> \/ ~mounted
               \/ ~isPlaying
               \/ /\ requestRef # i
                  /\ programRef # None
                  /\ DrawCall(programRef[1]) \in drawn

\* playing again after a pause, the second program active and drawn
C24_Witness ==
    /\ mounted
    /\ isPlaying
    /\ played < now
    /\ programRef # None
    /\ programRef[1].id = 2
    /\ DrawCall(programRef[1]) \in drawn

\* the position of a mousemove event in device pixels, origin bottom-left
DevicePixels(m) ==
    [x |-> m.ox * m.layout.devicePixelRatio,
     y |-> (m.layout.clientHeight - m.oy) * m.layout.devicePixelRatio]

\* C25: the pointer uniform of a frame is (0, 0) when no pointer-motion
\* event came before it, and else the position of the latest such event in
\* device pixels with the origin at the bottom-left: (0, 0) for the
\* surface's bottom-left corner and (surface width, surface height) for its
\* top-right corner, at every device pixel ratio.
C25_PointerInDevicePixels ==
    lastUTime # None =>
        LET u == lastUTime[1]
        IN  u.uMouse = IF u.moved = None
                       THEN [x |-> 0, y |-> 0]
                       ELSE DevicePixels(u.moved[1])

====
